---------------------------- MODULE Spec2Model ----------------------------
(***************************************************************************)
(* Live log viewer: the tailer (CSVFileWatcher), its worker thread         *)
(* (FileWatcherThread), the header/row parser (CSVParser), the display     *)
(* aggregates (DataDisplayWidget) and the window that ties them together   *)
(* (MainWindow).                                                           *)
(*                                                                         *)
(* A file is a sequence of bytes; a byte is a one-character string.  The   *)
(* tailer reads the file twice in two different ways: in text mode when    *)
(* it is constructed (characters, universal newlines, undecodable bytes    *)
(* dropped) and in binary mode on every poll (bytes).                      *)
(***************************************************************************)
EXTENDS Integers, Sequences, FiniteSets, TLC

VARIABLES
    \* The watched file and one CSVFileWatcher on it, called by one thread.
    file,               \* the file's bytes
    last_position,      \* CSVFileWatcher.last_position
    last_known_size,    \* CSVFileWatcher.last_known_size
    emitted,            \* the lines emitted on new_line, in order
    \* History of the run, read only by the properties.
    size0,              \* the file's size when the watcher was constructed
    clean,              \* only complete lines were appended since, to a file
                        \* that ended with a newline
    deferred,           \* where the partial line a poll left begins, or -1
    last_poll,          \* the latest call of _read_new_lines
    appends,            \* how often the producer appended
    rewrites,           \* how often the file was truncated or replaced
    created,            \* how many file-created notifications were delivered
    \* The same watcher called by two threads: the worker's poll loop and
    \* the watchdog observer's event dispatch.
    pc,                 \* where each thread is in _read_new_lines
    loc,                \* each thread's locals
    writers,            \* the threads that have written the watcher's fields
    \* The main window, its display, and the watches it starts.
    disk,               \* the files by path: each one's bytes
    current_file,       \* MainWindow.current_file
    parser,             \* MainWindow.parser
    watcher_thread,     \* MainWindow.watcher_thread: an index of watches
    stop_enabled,       \* whether the Stop button is enabled
    current_data,       \* DataDisplayWidget.current_data
    maximum_values,     \* DataDisplayWidget.maximum_values
    watches,            \* every FileWatcherThread started so far
    channel,            \* new_line emissions queued for the window's thread
    ui_pc,              \* where the window's thread is
    \* History of the run, read only by the properties.
    ui_last,            \* what the window's thread did last
    last_stop,          \* the most recent _stop_watching
    loads,              \* how many times _load_file was invoked
    ui_appends,         \* how often the producer appended
    \* The display on its own, fed one record after another.
    observed,           \* per column, the values handed over since the reset
    updates,            \* how many records were handed over
    \* The parser on its own.
    header_fields          \* the fields the producer wrote as the first line

concVars == <<pc, loc, writers>>

displayVars == <<observed, updates, header_fields>>

uiVars ==
    <<disk, current_file, parser, watcher_thread, stop_enabled, current_data,
      maximum_values, watches, channel, ui_pc, ui_last, last_stop, loads,
      ui_appends>>

tailVars ==
    <<file, last_position, last_known_size, emitted, size0, clean, deferred,
      last_poll, appends, rewrites, created>>

vars == <<tailVars, concVars, uiVars, displayVars>>

\* ------------------------------------------------------------------ bytes

LF == "\n"
CR == "\r"
COMMA == ","
\* A byte that is no valid UTF-8 (such as 0xFF): errors='ignore' drops it.
BadByte == "#"
\* The characters str.strip() removes, among the bytes of the model.
Whitespace == {LF, CR, " "}

\* ----------------------------------------------------------------- bounds

\* How many times the producer appends to the file.
MaxAppends == 2
\* How many times the producer may replace the file's content.
MaxRewrites == 1
\* How many file-created notifications are delivered.
MaxCreated == 1

\* The files a watcher is constructed on: empty, a header alone (with and
\* without its newline), complete rows, a row being written, CRLF line ends,
\* undecodable bytes.
InitialFiles ==
    { <<>>,
      <<"1">>,
      <<"1", LF>>,
      <<"1", LF, "2", LF>>,
      <<"1", LF, "2">>,
      <<"1", CR, LF, "2", CR, LF>>,
      <<"1", CR, LF, "2", CR, LF, "2", CR, LF>>,
      <<"1", BadByte, BadByte, LF, "2", LF>> }

\* What the producer appends in one write.
Chunks ==
    { <<"1">>, <<"2", LF>>, <<CR, LF>>, <<LF, "2", LF>>, <<BadByte, LF>> }

\* What the producer leaves in the file when it truncates or rotates it.
Rewrites ==
    { <<>>, <<"1", LF>>, <<"2", LF, "1", LF>>, <<"1", LF, "2">> }

\* ------------------------------------------------------- python primitives

Min(a, b) == IF a < b THEN a ELSE b
Max(a, b) == IF a > b THEN a ELSE b

\* bytes.decode('utf-8', errors='ignore')
DecodeIgnore(b) == SelectSeq(b, LAMBDA c : c # BadByte)

\* Universal newlines of a text-mode file object: "\r\n" and "\r" read as "\n".
TranslateNewlines(s) ==
    LET read == [i \in 1 .. Len(s) |->
                    IF s[i] = LF /\ i > 1 /\ s[i - 1] = CR THEN ""
                    ELSE IF s[i] = CR THEN LF
                    ELSE s[i]]
    IN  SelectSeq(read, LAMBDA c : c # "")

\* open(path, 'r', encoding='utf-8', errors='ignore'); f.seek(offset); f.read(n):
\* at most n CHARACTERS of the text decoded from byte `offset` on.
TextRead(f, offset, n) ==
    LET text == TranslateNewlines(DecodeIgnore(SubSeq(f, offset + 1, Len(f))))
    IN  SubSeq(text, 1, Min(n, Len(text)))

\* str.strip()
RECURSIVE LStrip(_)
LStrip(s) == IF s # <<>> /\ Head(s) \in Whitespace THEN LStrip(Tail(s)) ELSE s
RECURSIVE RStrip(_)
RStrip(s) ==
    IF s # <<>> /\ s[Len(s)] \in Whitespace
    THEN RStrip(SubSeq(s, 1, Len(s) - 1)) ELSE s
Strip(s) == RStrip(LStrip(s))

\* data.find(b'\n', start): the 0-based index of the first newline at or after
\* start, or -1.
Find(data, start) ==
    LET hits == { i \in start .. Len(data) - 1 : data[i + 1] = LF }
    IN  IF hits = {} THEN -1 ELSE CHOOSE i \in hits : \A j \in hits : i <= j

\* chunk.rfind('\n'): the 0-based index of the last newline, or -1.
RFind(chunk) ==
    LET hits == { i \in 0 .. Len(chunk) - 1 : chunk[i + 1] = LF }
    IN  IF hits = {} THEN -1 ELSE CHOOSE i \in hits : \A j \in hits : i >= j

\* ---------------------------------------------------------- CSVFileWatcher

\* The backward scan's window (chunk_size = min(1024, file_size)).
ChunkWindow == 1024

\* _read_initial_position: the offset and the cached size of a new watcher.
ReadInitialPosition(f) ==
    LET file_size == Len(f)
        chunk_size == Min(ChunkWindow, file_size)
        chunk == TextRead(f, Max(0, file_size - chunk_size), chunk_size)
        last_newline == RFind(chunk)
        last_char == TextRead(f, Max(0, file_size - 1), 1)
    IN  IF file_size = 0
        THEN [last_position |-> 0, last_known_size |-> 0]
        ELSE IF last_newline >= 0
        THEN [last_position |-> file_size - chunk_size + last_newline + 1,
              last_known_size |-> file_size]
        ELSE IF last_char = <<LF>>
        THEN [last_position |-> file_size, last_known_size |-> file_size]
        ELSE [last_position |-> Max(0, file_size - chunk_size),
              last_known_size |-> file_size]

\* A loop that counts the bytes of the lines it emits only: a skipped line
\* stays before the offset's advance.
RECURSIVE ScanLinesCountsEmitted(_, _, _, _)
ScanLinesCountsEmitted(new_data_bytes, start_idx, bytes_processed, out) ==
    LET newline_idx == Find(new_data_bytes, start_idx)
        line_bytes == SubSeq(new_data_bytes, start_idx + 1, newline_idx)
        line == Strip(DecodeIgnore(line_bytes))
    IN  IF newline_idx = -1
        THEN [lines |-> out, bytes_processed |-> bytes_processed]
        ELSE ScanLinesCountsEmitted(
                 new_data_bytes, newline_idx + 1,
                 IF line # <<>> THEN bytes_processed + Len(line_bytes) + 1
                 ELSE bytes_processed,
                 IF line # <<>> THEN Append(out, line) ELSE out)

\* The while-loop of _read_new_lines over the bytes just read: the lines to
\* emit, in order, and the number of bytes consumed.
RECURSIVE ScanLines(_, _, _, _)
ScanLines(new_data_bytes, start_idx, bytes_processed, out) ==
    LET newline_idx == Find(new_data_bytes, start_idx)
        line_bytes == SubSeq(new_data_bytes, start_idx + 1, newline_idx)
        line == Strip(DecodeIgnore(line_bytes))
    IN  IF newline_idx = -1
        THEN [lines |-> out, bytes_processed |-> bytes_processed]
        ELSE ScanLines(new_data_bytes, newline_idx + 1,
                       bytes_processed + Len(line_bytes) + 1,
                       IF line # <<>> THEN Append(out, line) ELSE out)

\* A truncation check that keeps the stale offset.
KeepStaleOffset(current_size, pos) == pos

\* A truncation check that also resets when the file ends at the offset.
TruncationResetAtOffset(current_size, pos) ==
    IF current_size <= pos THEN 0 ELSE pos

\* The truncation check of _read_new_lines.
TruncationReset(current_size, pos) == IF current_size < pos THEN 0 ELSE pos

\* A tailer that moves the offset to the end of what it read, partial line
\* included.
ReadNewLinesToEof(f, pos, known) ==
    LET current_size == Len(f)
        start == TruncationReset(current_size, pos)
        scan == ScanLines(SubSeq(f, start + 1, current_size), 0, 0, <<>>)
    IN  IF current_size = known
        THEN [emit |-> <<>>, last_position |-> pos, last_known_size |-> known]
        ELSE [emit |-> scan.lines, last_position |-> Max(start, current_size),
              last_known_size |-> current_size]

\* A tailer without the size comparison: it reads whenever there are bytes
\* past the offset.
ReadNewLinesAlwaysReads(f, pos, known) ==
    LET current_size == Len(f)
        start == TruncationReset(current_size, pos)
        scan == ScanLines(SubSeq(f, start + 1, current_size), 0, 0, <<>>)
    IN  IF current_size > start
        THEN [emit |-> scan.lines,
              last_position |-> start + scan.bytes_processed,
              last_known_size |-> current_size]
        ELSE [emit |-> <<>>, last_position |-> start,
              last_known_size |-> current_size]

\* A tailer that handles one line per call: it emits the first complete line
\* of what it read and moves the offset past that line only.
ReadNewLinesOneLine(f, pos, known) ==
    LET current_size == Len(f)
        start == TruncationReset(current_size, pos)
        new_data_bytes == SubSeq(f, start + 1, current_size)
        newline_idx == Find(new_data_bytes, 0)
        line == Strip(DecodeIgnore(SubSeq(new_data_bytes, 1, newline_idx)))
    IN  IF current_size = known
        THEN [emit |-> <<>>, last_position |-> pos, last_known_size |-> known]
        ELSE IF current_size > start /\ newline_idx # -1
        THEN [emit |-> IF line # <<>> THEN <<line>> ELSE <<>>,
              last_position |-> start + newline_idx + 1,
              last_known_size |-> current_size]
        ELSE [emit |-> <<>>, last_position |-> start,
              last_known_size |-> current_size]

\* _read_new_lines, run to completion by one caller: the lines emitted on
\* new_line and the watcher's fields afterwards.
ReadNewLines(f, pos, known) ==
    LET current_size == Len(f)
        start == TruncationReset(current_size, pos)
        new_data_bytes == SubSeq(f, start + 1, current_size)
        scan == ScanLines(new_data_bytes, 0, 0, <<>>)
    IN  IF current_size = known
        THEN [emit |-> <<>>, last_position |-> pos, last_known_size |-> known]
        ELSE IF current_size > start
        THEN [emit |-> scan.lines,
              last_position |-> start + scan.bytes_processed,
              last_known_size |-> current_size]
        ELSE [emit |-> <<>>, last_position |-> start,
              last_known_size |-> current_size]


\* --------------------------------------------------------------- CSVParser

\* Python objects that are told apart by their type: None, the exceptions
\* raised, a dict, a CSVParser.
None == [type |-> "NoneType"]
ValueError == [type |-> "ValueError"]
Dict(items) == [type |-> "dict", items |-> items]
\* bool(data): a dict with at least one key.
Truthy(data) == data.type = "dict" /\ DOMAIN data.items # {}

\* str.split(sep): the pieces of s between the occurrences of sep.
RECURSIVE Split(_, _)
Split(s, sep) ==
    LET hits == { i \in 1 .. Len(s) : s[i] = sep }
        i == CHOOSE k \in hits : \A j \in hits : k <= j
    IN  IF hits = {} THEN <<s>>
        ELSE <<SubSeq(s, 1, i - 1)>> \o Split(SubSeq(s, i + 1, Len(s)), sep)

\* csv.reader on one line without quote characters: the fields between the
\* commas; an empty line is a row of no fields.
CsvFields(line) == IF line = <<>> THEN <<>> ELSE Split(line, COMMA)

\* re.match(r'^(.+?)\s*\(([^)]+)\)\s*$', header.strip()): the "(" that opens
\* the unit group, or 0 when the field does not match.  The lazy name takes
\* the earliest "(" after which only the unit, one ")" and the end follow.
UnitOpens(h) ==
    LET n == Len(h)
        opens == { p \in 2 .. n - 2 :
                      /\ h[p] = "("
                      /\ h[n] = ")"
                      /\ \A k \in p + 1 .. n - 1 : h[k] # ")" }
    IN  IF opens = {} THEN 0 ELSE CHOOSE p \in opens : \A q \in opens : p <= q

\* One header field: its name and its unit.
HeaderField(header) ==
    LET h == Strip(header)
        p == UnitOpens(h)
    IN  IF p > 0
        THEN [name |-> Strip(SubSeq(h, 1, p - 1)),
              unit |-> Strip(SubSeq(h, p + 1, Len(h) - 1))]
        ELSE [name |-> h, unit |-> <<>>]

\* CSVParser.__init__ / _parse_header on a file's bytes: the parser, or
\* ValueError (an empty file: next(reader) raises StopIteration; a byte that
\* is no UTF-8 in the first buffer read: the strict text-mode read raises).
ParseHeader(f) ==
    LET text == TranslateNewlines(f)
        header_row == CsvFields(Head(Split(text, LF)))
        fields == [i \in 1 .. Len(header_row) |-> HeaderField(header_row[i])]
    IN  IF f = <<>> \/ \E i \in 1 .. Len(f) : f[i] = BadByte
        THEN ValueError
        ELSE [type |-> "CSVParser",
              column_names |-> [i \in 1 .. Len(fields) |-> fields[i].name],
              column_units |-> [i \in 1 .. Len(fields) |-> fields[i].unit],
              column_count |-> Len(fields)]

\* A parse_row that fills the columns from whatever fields there are.
ParseRowAnyArity(self, row_data) ==
    LET values == CsvFields(row_data)
    IN  Dict([name \in { self.column_names[i] : i \in 1 .. self.column_count } |->
                 IF values = <<>> THEN <<>> ELSE Strip(values[1])])

\* CSVParser.parse_row: the dict (column name -> value) or None.  A name
\* that occurs twice keeps the value of its last column, as a dict does.
ParseRow(self, row_data) ==
    LET values == CsvFields(row_data)
        names == { self.column_names[i] : i \in 1 .. self.column_count }
        LastCol(name) ==
            CHOOSE i \in 1 .. self.column_count :
                /\ self.column_names[i] = name
                /\ \A j \in 1 .. self.column_count :
                       self.column_names[j] = name => j <= i
    IN  IF Len(values) # self.column_count
        THEN None
        ELSE Dict([name \in names |-> Strip(values[LastCol(name)])])

\* ------------------------------------------------------- DataDisplayWidget

\* float(value_str) on a stripped field.  The fields here are made of
\* digits, a sign and lower-case letters, so float() accepts an optional sign
\* followed by digits or by "nan"; the letters spell no "inf" and no
\* exponent.  A float is a record: whether it is the NaN, and its value
\* otherwise.
Digit ==
    ("0" :> 0) @@ ("1" :> 1) @@ ("2" :> 2) @@ ("3" :> 3) @@ ("4" :> 4) @@
    ("5" :> 5) @@ ("6" :> 6) @@ ("7" :> 7) @@ ("8" :> 8) @@ ("9" :> 9)
IsDigits(s) == s # <<>> /\ \A i \in 1 .. Len(s) : s[i] \in DOMAIN Digit
RECURSIVE DigitsValue(_)
DigitsValue(s) ==
    IF s = <<>> THEN 0
    ELSE 10 * DigitsValue(SubSeq(s, 1, Len(s) - 1)) + Digit[s[Len(s)]]
NaN == [nan |-> TRUE, value |-> 0]
Number(value) == [nan |-> FALSE, value |-> value]
Unsigned(value_str) ==
    IF value_str # <<>> /\ Head(value_str) \in {"-", "+"}
    THEN Tail(value_str) ELSE value_str
\* Whether float(value_str) returns rather than raises ValueError.
IsNumber(value_str) ==
    IsDigits(Unsigned(value_str)) \/ Unsigned(value_str) = <<"n", "a", "n">>
Float(value_str) ==
    IF ~IsDigits(Unsigned(value_str)) THEN NaN
    ELSE IF Head(value_str) = "-"
    THEN Number(0 - DigitsValue(Unsigned(value_str)))
    ELSE Number(DigitsValue(Unsigned(value_str)))
Abs(x) == IF x.value < 0 THEN [x EXCEPT !.value = 0 - @] ELSE x
\* a > b and a >= b on floats: false whenever either side is the NaN.
Greater(a, b) == ~a.nan /\ ~b.nan /\ a.value > b.value
AtLeast(a, b) == ~a.nan /\ ~b.nan /\ a.value >= b.value

\* The display: the record shown and the per-column aggregate
\* (DataDisplayWidget.__init__).
NoMaximum == [column_name \in {} |-> NaN]
NewDisplay == [current_data |-> None, maximum_values |-> NoMaximum]

\* DataDisplayWidget.set_column_info: the aggregates are cleared.
SetColumnInfo(display) == [display EXCEPT !.maximum_values = NoMaximum]

\* The loop of update_data over data.items(): a numeric value replaces the
\* column's aggregate when the column has none or its magnitude is larger.
TrackMaximum(maximum, items) ==
    LET numeric == { c \in DOMAIN items : IsNumber(items[c]) }
    IN  [column_name \in DOMAIN maximum \cup numeric |->
            IF /\ column_name \in numeric
               /\ \/ column_name \notin DOMAIN maximum
                  \/ Greater(Abs(Float(items[column_name])),
                             Abs(maximum[column_name]))
            THEN Float(items[column_name])
            ELSE maximum[column_name]]

\* f"{max_value:.2f}" for the floats above (no field here is a negative
\* zero).
DigitChar == <<"0", "1", "2", "3", "4", "5", "6", "7", "8", "9">>
RECURSIVE Decimal(_)
Decimal(n) ==
    IF n < 10 THEN <<DigitChar[n + 1]>>
    ELSE Decimal(n \div 10) \o <<DigitChar[(n % 10) + 1]>>
Format2f(x) ==
    IF x.nan THEN <<"n", "a", "n">>
    ELSE (IF x.value < 0 THEN <<"-">> ELSE <<>>)
         \o Decimal(Abs(x).value) \o <<".", "0", "0">>

\* DataDisplayWidget._calculate_maximum: the text shown for a column.
NA == <<"N", "/", "A">>
CalculateMaximum(maximum, column_name) ==
    IF column_name \notin DOMAIN maximum THEN NA
    ELSE Format2f(maximum[column_name])

\* The parameters update_data declares; a call that passes any other keyword
\* raises TypeError before the body runs.
UpdateDataParameters == {"data", "update_display"}

\* An update_data that declares track_values and tracks all the same.
UpdateDataTracksAlways(display, data, keywords) ==
    [raised |-> FALSE,
     display |-> [current_data |-> data,
                  maximum_values |-> TrackMaximum(display.maximum_values, data.items)]]

\* DataDisplayWidget.update_data called with the given keywords: whether it
\* raised, and the display afterwards.
UpdateData(display, data, keywords) ==
    IF ~(keywords \subseteq UpdateDataParameters)
    THEN [raised |-> TRUE, display |-> display]
    ELSE [raised |-> FALSE,
          display |-> [current_data |-> data,
                       maximum_values |->
                           TrackMaximum(display.maximum_values, data.items)]]

\* -------------------------------------------------------------- MainWindow

\* MainWindow's optional fields when unset: no thread (an index of watches
\* otherwise), no path.  Both are false in a condition, as None is.
NoThread == 0
NoPath == ""

\* MainWindow.__init__.
NewWindow ==
    [current_file |-> NoPath, parser |-> None, watcher_thread |-> NoThread,
     stop_enabled |-> FALSE, display |-> NewDisplay]

\* A _stop_watching that resets the thread only.
StopWatchingKeepsParser(w) ==
    [w EXCEPT !.watcher_thread = NoThread, !.stop_enabled = FALSE]

\* MainWindow._stop_watching once the thread, if any, has been stopped: the
\* fields are reset, the Stop button disabled and the display handed {}.
StopWatchingTail(w) ==
    [w EXCEPT !.watcher_thread = NoThread,
              !.parser = None,
              !.current_file = NoPath,
              !.stop_enabled = FALSE,
              !.display = UpdateData(@, Dict(<<>>), {"data"}).display]

\* The row _read_existing_data hands to the display, or None: the lines of
\* the decoded bytes split at "\n"; from the line before the last one (the
\* last one when that would be the header) back to the first line after the
\* header, the first that is not blank and decodes to a non-empty dict.
BackfillRow(self, f) ==
    LET lines == Split(DecodeIgnore(f), LF)
        n == Len(lines)
        line_index == IF n - 2 < 1 THEN n - 1 ELSE n - 2
        decodes == { i \in 1 .. line_index :
                        /\ Strip(lines[i + 1]) # <<>>
                        /\ Truthy(ParseRow(self, Strip(lines[i + 1]))) }
    IN  IF f = <<>> \/ n <= 1 \/ decodes = {} THEN None
        ELSE ParseRow(self, Strip(lines[(CHOOSE i \in decodes :
                                            \A j \in decodes : j <= i) + 1]))

\* MainWindow._read_existing_data: the row is handed to update_data with
\* update_display and track_values; whatever that call raises is caught and
\* printed.
ReadExistingData(w, files) ==
    IF w.parser = None \/ w.current_file = NoPath THEN w
    ELSE LET data == BackfillRow(w.parser, files[w.current_file])
         IN  IF data = None THEN w
             ELSE [w EXCEPT !.display =
                      UpdateData(@, data,
                                 {"data", "update_display", "track_values"}).display]

\* A _load_file that leaves the Stop button as it found it.
LoadExistingKeepsButton(w, file_path, files, new_thread) ==
    LET p == ParseHeader(files[file_path])
    IN  IF p = ValueError
        THEN [outcome |-> "error", w |-> StopWatchingTail(w)]
        ELSE [outcome |-> "ok",
              w |-> [ReadExistingData(
                        [w EXCEPT !.parser = p,
                                  !.display = SetColumnInfo(@),
                                  !.current_file = file_path], files)
                     EXCEPT !.watcher_thread = new_thread]]

\* MainWindow._load_file after its first _stop_watching: a missing file
\* returns; a header that does not parse raises and the handler stops
\* watching again; otherwise the parser is set, the aggregates are cleared,
\* the backfill runs and the thread new_thread is started.
LoadExisting(w, file_path, files, new_thread) ==
    LET p == ParseHeader(files[file_path])
    IN  IF p = ValueError
        THEN [outcome |-> "error", w |-> StopWatchingTail(w)]
        ELSE [outcome |-> "ok",
              w |-> [ReadExistingData(
                        [w EXCEPT !.parser = p,
                                  !.display = SetColumnInfo(@),
                                  !.current_file = file_path], files)
                     EXCEPT !.watcher_thread = new_thread,
                            !.stop_enabled = TRUE]]

\* A _load_file that records the path before it looks for the file.
LoadFileRecordsPathFirst(w, file_path, files, new_thread) ==
    IF file_path \notin DOMAIN files
    THEN [outcome |-> "not_found", w |-> [w EXCEPT !.current_file = file_path]]
    ELSE LoadExisting(w, file_path, files, new_thread)

LoadFileBody(w, file_path, files, new_thread) ==
    IF file_path \notin DOMAIN files
    THEN [outcome |-> "not_found", w |-> w]
    ELSE LoadExisting(w, file_path, files, new_thread)

\* FileWatcherThread.__init__ followed by start(): the thread is scheduled
\* and has not run yet.  For the properties it carries the size the file had
\* when _read_existing_data read it, and the lines it has emitted.
NewThread(file_path, backfilled) ==
    [file_path |-> file_path, running |-> TRUE, thread |-> "starting",
     observer |-> "none", last_position |-> 0, last_known_size |-> 0,
     stopped |-> FALSE, late |-> FALSE, backfilled |-> backfilled,
     sent |-> <<>>]

\* The window's thread between handlers, and the history before any handler.
Idle == [at |-> "idle", then |-> "", file_path |-> NoPath]
NoOp ==
    [op |-> "init", file_path |-> NoPath, watch |-> NoThread, decoded |-> FALSE,
     after_drop |-> FALSE, content |-> <<>>]
NoStop ==
    [streak |-> 0, waited |-> FALSE,
     after |-> [watcher_thread |-> NoThread, parser |-> None,
                current_file |-> NoPath]]

\* No value handed to the display yet.
NoObserved == [column_name \in {} |-> <<>>]

\* The window before any file is opened, on the given files.
NoFiles == [file_path \in {} |-> <<>>]
WindowInit(files) ==
    /\ disk = files
    /\ current_file = NewWindow.current_file
    /\ parser = NewWindow.parser
    /\ watcher_thread = NewWindow.watcher_thread
    /\ stop_enabled = NewWindow.stop_enabled
    /\ current_data = NewWindow.display.current_data
    /\ maximum_values = NewWindow.display.maximum_values
    /\ watches = <<>>
    /\ channel = <<>>
    /\ ui_pc = Idle
    /\ ui_last = NoOp
    /\ last_stop = NoStop
    /\ loads = 0
    /\ ui_appends = 0
    /\ observed = NoObserved
    /\ updates = 0
    /\ header_fields = <<>>

\* ------------------------------------------------ one watcher, one caller

NoPoll ==
    [polled |-> FALSE, content |-> <<>>, pos_before |-> 0, known_before |-> 0,
     deferred_before |-> -1, emit |-> <<>>, pos_after |-> 0, raised |-> ""]

\* The two threads that call the watcher, and a call's locals.
Threads == {"worker", "observer"}
NoLocals ==
    [current_size |-> 0, lines |-> <<>>, bytes_processed |-> 0, loaded |-> 0]
ConcIdle ==
    /\ pc = [t \in Threads |-> "idle"]
    /\ loc = [t \in Threads |-> NoLocals]
    /\ writers = {}

\* A row being written that is already longer than the window
\* _read_initial_position scans, and the files a watcher is constructed on.
LongRow == [i \in 1 .. ChunkWindow + 1 |-> "2"]
WatchedFiles == InitialFiles \cup { <<"1", LF>> \o LongRow }

TailInit ==
    \E f \in WatchedFiles :
        /\ file = f
        \* CSVFileWatcher.__init__ on the file as it is.
        /\ last_position = ReadInitialPosition(f).last_position
        /\ last_known_size = ReadInitialPosition(f).last_known_size
        /\ emitted = <<>>
        /\ size0 = Len(f)
        /\ clean = (f # <<>> /\ f[Len(f)] = LF)
        /\ deferred = -1
        /\ last_poll = NoPoll
        /\ appends = 0
        /\ rewrites = 0
        /\ created = 0
        /\ ConcIdle
        /\ WindowInit(NoFiles)

\* The producer appends bytes to the file.
ProducerAppend ==
    \E chunk \in Chunks :
        /\ appends < MaxAppends
        /\ appends' = appends + 1
        /\ file' = file \o chunk
        /\ clean' = (clean /\ chunk[Len(chunk)] = LF)
        /\ UNCHANGED <<last_position, last_known_size, emitted, size0,
                       deferred, last_poll, rewrites, created>>
        /\ UNCHANGED <<concVars, uiVars, displayVars>>

\* The producer truncates the file or replaces its content.
ProducerRewrite ==
    \E content \in Rewrites :
        /\ rewrites < MaxRewrites
        /\ content # file
        /\ file' = content
        /\ rewrites' = rewrites + 1
        /\ clean' = FALSE
        /\ deferred' = -1
        /\ UNCHANGED <<last_position, last_known_size, emitted, size0,
                       last_poll, appends, created>>
        /\ UNCHANGED <<concVars, uiVars, displayVars>>

\* One call of _read_new_lines on the watcher whose offset is pos and whose
\* cached size is known.
CallReadNewLines(pos, known, was_deferred) ==
    LET r == ReadNewLines(file, pos, known)
    IN  /\ emitted' = emitted \o r.emit
        /\ last_position' = r.last_position
        /\ last_known_size' = r.last_known_size
        /\ last_poll' =
               [polled |-> TRUE, content |-> file, pos_before |-> pos,
                known_before |-> known, deferred_before |-> was_deferred,
                emit |-> r.emit, pos_after |-> r.last_position, raised |-> ""]
        /\ deferred' =
               IF Len(file) # known /\ r.last_position < Len(file)
               THEN r.last_position
               ELSE IF Len(file) # known THEN -1 ELSE was_deferred

\* The poll loop's call (FileWatcherThread.run, one iteration).
Poll ==
    /\ CallReadNewLines(last_position, last_known_size, deferred)
    /\ UNCHANGED <<file, size0, clean, appends, rewrites, created>>
    /\ UNCHANGED <<concVars, uiVars, displayVars>>

\* A file-system event: whether it is for a directory, and its path.
Events == [is_directory : BOOLEAN, src_path : {"tracked", "other"}]
ForTrackedFile(event) == ~event.is_directory /\ event.src_path = "tracked"

\* CSVFileWatcher.on_modified, called with event.
OnModifiedFor(event) ==
    /\ IF ForTrackedFile(event)
       THEN CallReadNewLines(last_position, last_known_size, deferred)
       ELSE UNCHANGED <<emitted, last_position, last_known_size,
                        last_poll, deferred>>
    /\ UNCHANGED <<file, size0, clean, appends, rewrites, created>>
    /\ UNCHANGED <<concVars, uiVars, displayVars>>

\* CSVFileWatcher.on_modified
OnModified == \E event \in Events : OnModifiedFor(event)

\* A reset that forgets the offset and keeps the cached size.
CreatedResetOffsetOnly(pos, known) ==
    [last_position |-> 0, last_known_size |-> known]

\* The two assignments of on_created before it calls _read_new_lines.
CreatedReset(pos, known) == [last_position |-> 0, last_known_size |-> 0]

\* CSVFileWatcher.on_created, called with event.
OnCreatedFor(event) ==
    /\ created < MaxCreated
    /\ created' = created + 1
    /\ IF ForTrackedFile(event)
       THEN /\ LET reset == CreatedReset(last_position, last_known_size)
               IN  CallReadNewLines(reset.last_position,
                                    reset.last_known_size, -1)
            /\ clean' = FALSE
       ELSE UNCHANGED <<emitted, last_position, last_known_size,
                        last_poll, deferred, clean>>
    /\ UNCHANGED <<file, size0, appends, rewrites>>
    /\ UNCHANGED <<concVars, uiVars, displayVars>>

\* CSVFileWatcher.on_created
OnCreated == \E event \in Events : OnCreatedFor(event)

TailNext ==
    \/ ProducerAppend
    \/ ProducerRewrite
    \/ Poll
    \/ OnModified
    \/ OnCreated


SpecTail == TailInit /\ [][TailNext]_vars

\* ------------------------------------ one watcher, every notification lost

\* The observer delivers nothing; FileWatcherThread.run calls _read_new_lines
\* every 100 ms for as long as the watch runs.
PollNext ==
    \/ ProducerAppend
    \/ Poll

\* What a poll does first when the file's size is not the cached one:
\* self.last_known_size = current_size.  Among the steps of PollNext only Poll
\* changes last_known_size, so a step that does this is a poll.
SizeRefreshed == last_known_size' = Len(file)

\* The loop never stops polling: a changed size is eventually looked at.
SpecPoll ==
    TailInit /\ [][PollNext]_vars /\ WF_last_known_size(SizeRefreshed)

\* ------------------------------------------- one watcher, calls that raise

\* The calls of _read_new_lines that can raise OSError: stat, open, read.
RaisesAt == {"stat", "open", "read"}

\* Whether a call of _read_new_lines reaches the call named by at.
Reaches(f, pos, known, at) ==
    \/ at = "stat"
    \/ /\ at \in {"open", "read"}
       /\ Len(f) # known
       /\ Len(f) > TruncationReset(Len(f), pos)

\* _read_new_lines when the call named by at raises: the except clause prints
\* the error and the call returns with what was assigned before it.
ReadNewLinesRaising(f, pos, known, at) ==
    LET current_size == Len(f)
        start == TruncationReset(current_size, pos)
    IN  IF at = "stat"
        THEN [emit |-> <<>>, last_position |-> pos, last_known_size |-> known]
        ELSE [emit |-> <<>>, last_position |-> start,
              last_known_size |-> current_size]

\* The poll loop's call, raising inside _read_new_lines.
PollRaises ==
    \E at \in RaisesAt :
        LET r == ReadNewLinesRaising(file, last_position, last_known_size, at)
        IN  /\ Reaches(file, last_position, last_known_size, at)
            /\ emitted' = emitted \o r.emit
            /\ last_position' = r.last_position
            /\ last_known_size' = r.last_known_size
            /\ last_poll' =
                   [polled |-> TRUE, content |-> file,
                    pos_before |-> last_position,
                    known_before |-> last_known_size,
                    deferred_before |-> deferred,
                    emit |-> r.emit, pos_after |-> r.last_position,
                    raised |-> at]
            /\ UNCHANGED <<file, size0, clean, deferred, appends, rewrites,
                           created>>
            /\ UNCHANGED <<concVars, uiVars, displayVars>>

RetryNext ==
    \/ ProducerAppend
    \/ Poll
    \/ PollRaises

SpecRetry == TailInit /\ [][RetryNext]_vars


\* ------------------------------------------------ one watcher, two threads

\* FileWatcherThread.run polls the watcher every 100 ms on the worker thread;
\* the watchdog Observer dispatches on_modified and on_created to the same
\* watcher on its own thread.  Nothing in CSVFileWatcher serialises the two,
\* so their calls of _read_new_lines interleave at every access to the file
\* and to the watcher's fields.

\* The files the two-thread watcher is constructed on.
ConcFiles == { <<"1", LF>> }

\* What the producer appends in one write while two threads poll.
ConcChunks == { <<"1">>, <<"2", LF>> }

\* How many times the producer appends while two threads poll.
MaxConcAppends == 2

ConcInit ==
    \E f \in ConcFiles :
        /\ file = f
        /\ last_position = ReadInitialPosition(f).last_position
        /\ last_known_size = ReadInitialPosition(f).last_known_size
        /\ emitted = <<>>
        /\ size0 = Len(f)
        /\ clean = FALSE
        /\ deferred = -1
        /\ last_poll = NoPoll
        /\ appends = 0
        /\ rewrites = 0
        /\ created = 0
        /\ ConcIdle
        /\ WindowInit(NoFiles)

history == <<size0, clean, deferred, last_poll, rewrites>>
concFrame == <<file, appends, history, uiVars, displayVars>>

\* The producer appends bytes to the file.
ConcAppend ==
    \E chunk \in ConcChunks :
        /\ appends < MaxConcAppends
        /\ appends' = appends + 1
        /\ file' = file \o chunk
        /\ UNCHANGED <<history, last_position, last_known_size, emitted,
                       created, concVars, uiVars, displayVars>>

Goto(t, label) == pc' = [pc EXCEPT ![t] = label]

\* FileWatcherThread.run: the loop calls _read_new_lines.
WorkerPoll ==
    /\ pc["worker"] = "idle"
    /\ Goto("worker", "stat")
    /\ UNCHANGED <<concFrame, last_position, last_known_size, emitted,
                   created, loc, writers>>

\* The observer thread dispatches on_modified.
ObserverModified ==
    \E event \in Events :
        /\ pc["observer"] = "idle"
        /\ IF ForTrackedFile(event) THEN Goto("observer", "stat") ELSE UNCHANGED pc
        /\ UNCHANGED <<concFrame, last_position, last_known_size, emitted,
                       created, loc, writers>>

\* The observer thread dispatches on_created.
ObserverCreated ==
    \E event \in Events :
        /\ pc["observer"] = "idle"
        /\ created < MaxCreated
        /\ created' = created + 1
        /\ IF ForTrackedFile(event)
           THEN /\ last_position' = 0
                /\ last_known_size' = 0
                /\ writers' = writers \cup {"observer"}
                /\ Goto("observer", "stat")
           ELSE UNCHANGED <<last_position, last_known_size, writers, pc>>
        /\ UNCHANGED <<concFrame, emitted, loc>>

\* current_size = self.file_path.stat().st_size
Stat(t) ==
    /\ pc[t] = "stat"
    /\ loc' = [loc EXCEPT ![t] = [NoLocals EXCEPT !.current_size = Len(file)]]
    /\ Goto(t, "size_check")
    /\ UNCHANGED <<concFrame, last_position, last_known_size, emitted,
                   created, writers>>

\* if current_size == self.last_known_size: return
SizeCheck(t) ==
    /\ pc[t] = "size_check"
    /\ IF loc[t].current_size = last_known_size
       THEN Goto(t, "idle")
       ELSE Goto(t, "cache")
    /\ UNCHANGED <<concFrame, last_position, last_known_size, emitted,
                   created, loc, writers>>

\* self.last_known_size = current_size
CacheSize(t) ==
    /\ pc[t] = "cache"
    /\ last_known_size' = loc[t].current_size
    /\ writers' = writers \cup {t}
    /\ Goto(t, "truncation")
    /\ UNCHANGED <<concFrame, last_position, emitted, created, loc>>

\* if current_size < self.last_position: self.last_position = 0
Truncation(t) ==
    /\ pc[t] = "truncation"
    /\ last_position' = TruncationReset(loc[t].current_size, last_position)
    /\ writers' = IF loc[t].current_size < last_position
                  THEN writers \cup {t} ELSE writers
    /\ Goto(t, "read")
    /\ UNCHANGED <<concFrame, last_known_size, emitted, created, loc>>

\* if current_size > self.last_position: seek, read, and find the lines
ReadBytes(t) ==
    /\ pc[t] = "read"
    /\ LET new_data_bytes ==
               SubSeq(file, last_position + 1, Min(loc[t].current_size, Len(file)))
           scan == ScanLines(new_data_bytes, 0, 0, <<>>)
       IN  IF loc[t].current_size > last_position /\ new_data_bytes # <<>>
           THEN /\ loc' = [loc EXCEPT ![t].lines = scan.lines,
                                      ![t].bytes_processed = scan.bytes_processed]
                /\ Goto(t, "emit")
           ELSE /\ UNCHANGED loc
                /\ Goto(t, "idle")
    /\ UNCHANGED <<concFrame, last_position, last_known_size, emitted,
                   created, writers>>

\* self.new_line_signal.emit(line), once per non-blank line
EmitLine(t) ==
    /\ pc[t] = "emit"
    /\ IF loc[t].lines # <<>>
       THEN /\ emitted' = Append(emitted, Head(loc[t].lines))
            /\ loc' = [loc EXCEPT ![t].lines = Tail(loc[t].lines)]
            /\ UNCHANGED pc
       ELSE /\ Goto(t, "load")
            /\ UNCHANGED <<emitted, loc>>
    /\ UNCHANGED <<concFrame, last_position, last_known_size, created, writers>>

\* self.last_position += bytes_processed: the attribute is loaded, ...
LoadPosition(t) ==
    /\ pc[t] = "load"
    /\ loc' = [loc EXCEPT ![t].loaded = last_position]
    /\ Goto(t, "advance")
    /\ UNCHANGED <<concFrame, last_position, last_known_size, emitted,
                   created, writers>>

\* ... and the sum is stored.
Advance(t) ==
    /\ pc[t] = "advance"
    /\ last_position' = loc[t].loaded + loc[t].bytes_processed
    /\ writers' = writers \cup {t}
    /\ loc' = [loc EXCEPT ![t] = NoLocals]
    /\ Goto(t, "idle")
    /\ UNCHANGED <<concFrame, last_known_size, emitted, created>>

\* One step of a thread inside _read_new_lines.
ReadNewLinesStep ==
    \E t \in Threads :
        \/ Stat(t)
        \/ SizeCheck(t)
        \/ CacheSize(t)
        \/ Truncation(t)
        \/ ReadBytes(t)
        \/ EmitLine(t)
        \/ LoadPosition(t)
        \/ Advance(t)

ConcNext ==
    \/ ConcAppend
    \/ WorkerPoll
    \/ ObserverModified
    \/ ObserverCreated
    \/ ReadNewLinesStep

SpecConc == ConcInit /\ [][ConcNext]_vars

\* ---------------------------------------- the window and the watches it runs
\*
\* The window's thread runs one handler at a time: _load_file, the Stop
\* button's _stop_watching, or _on_new_line for the oldest queued new_line
\* emission.  FileWatcherThread.stop ends in self.wait(1000), during which
\* the window's thread runs nothing else; it returns when the thread has
\* finished or when the second is over.  Every FileWatcherThread runs on its
\* own thread and its observer on another; what they emit is queued for the
\* window's thread.

\* The paths the user picks, the files behind them, and what the producer
\* appends to each.  "gone" names no file.
Paths == {"A", "B", "gone"}
FilesA ==
    { <<"a", COMMA, "b", LF, "1", COMMA, "2", LF>>,
      <<"a", COMMA, "b", LF, "1", COMMA, "2", LF, "-", "3", COMMA, "x">>,
      <<"a", COMMA, "b", LF, "1", COMMA, "2", LF, "4", LF, LF>>,
      <<"a", COMMA, "b", LF>>,
      <<"a", BadByte, COMMA, "b", LF, "1", COMMA, "2", LF>>,
      <<>> }
FileB == <<"c", COMMA, "d", LF, "7", COMMA, "8", LF>>
Appended ==
    [A |-> { <<"-", "5", COMMA, "6", LF>>,
             <<"4", LF, "-", "5", COMMA, "6", LF>> },
     B |-> { <<"9", COMMA, "x", LF>>,
             <<"9", COMMA, "x", COMMA, "1", LF, "3", COMMA, "2", LF>> }]

\* How many times a file is opened, and how many times the producer appends.
MaxLoads == 2
MaxUiAppends == 1

\* No watcher constructed outside the window's own watches.
NoWatcher ==
    /\ file = <<>>
    /\ last_position = 0
    /\ last_known_size = 0
    /\ emitted = <<>>
    /\ size0 = 0
    /\ clean = FALSE
    /\ deferred = -1
    /\ last_poll = NoPoll
    /\ appends = 0
    /\ rewrites = 0
    /\ created = 0
    /\ ConcIdle

UiInit ==
    /\ \E fa \in FilesA : WindowInit([A |-> fa, B |-> FileB])
    /\ NoWatcher

\* The window's fields as one value, and their assignment.
Window ==
    [current_file |-> current_file, parser |-> parser,
     watcher_thread |-> watcher_thread, stop_enabled |-> stop_enabled,
     display |-> [current_data |-> current_data,
                  maximum_values |-> maximum_values]]
Install(w) ==
    /\ current_file' = w.current_file
    /\ parser' = w.parser
    /\ watcher_thread' = w.watcher_thread
    /\ stop_enabled' = w.stop_enabled
    /\ current_data' = w.display.current_data
    /\ maximum_values' = w.display.maximum_values
StopFields(w) ==
    [watcher_thread |-> w.watcher_thread, parser |-> w.parser,
     current_file |-> w.current_file]

\* FileWatcherThread.stop up to its wait: the flag is cleared and the
\* observer, if run() has created it, is stopped and joined.
StopThread(then, file_path) ==
    /\ watches' = [watches EXCEPT
                      ![watcher_thread].running = FALSE,
                      ![watcher_thread].observer =
                          IF @ = "running" THEN "stopped" ELSE @]
    /\ ui_pc' = [at |-> "wait", then |-> then, file_path |-> file_path]
    /\ UNCHANGED <<current_file, parser, watcher_thread, stop_enabled,
                   current_data, maximum_values, ui_last, last_stop>>

\* The rest of the handler once stop() has returned, or at once when there
\* was no thread to stop: _stop_watching's resets and, for _load_file, its
\* body.
Complete(then, file_path, waited) ==
    LET w == StopWatchingTail(Window)
        r == IF then = "load"
             THEN LoadFileBody(w, file_path, disk, Len(watches) + 1)
             ELSE [outcome |-> "stopped", w |-> w]
        returned == IF waited
                    THEN [watches EXCEPT ![watcher_thread].stopped = TRUE]
                    ELSE watches
    IN  /\ Install(r.w)
        /\ watches' = IF r.outcome = "ok"
                      THEN Append(returned,
                                  NewThread(file_path, Len(disk[file_path])))
                      ELSE returned
        /\ ui_pc' = Idle
        /\ ui_last' =
               [op |-> r.outcome, file_path |-> file_path, watch |-> NoThread,
                decoded |-> FALSE, after_drop |-> FALSE,
                content |-> IF r.outcome = "ok" THEN disk[file_path] ELSE <<>>]
        /\ last_stop' =
               CASE r.outcome = "ok" ->
                        [streak |-> 0, waited |-> waited, after |-> StopFields(w)]
                 [] r.outcome = "error" ->
                        [streak |-> last_stop.streak + 2, waited |-> FALSE,
                         after |-> StopFields(r.w)]
                 [] OTHER ->
                        [streak |-> last_stop.streak + 1, waited |-> waited,
                         after |-> StopFields(w)]

\* MainWindow._load_file(file_path), from the file dialog.
LoadFile(file_path) ==
    /\ ui_pc.at = "idle"
    /\ loads < MaxLoads
    /\ loads' = loads + 1
    /\ IF watcher_thread # NoThread
       THEN StopThread("load", file_path)
       ELSE Complete("load", file_path, FALSE)
    /\ UNCHANGED <<disk, channel, ui_appends, tailVars, concVars, displayVars>>

\* MainWindow._stop_watching, from the Stop button while it is enabled.
StopWatching ==
    /\ ui_pc.at = "idle"
    /\ stop_enabled
    /\ IF watcher_thread # NoThread
       THEN StopThread("stop", NoPath)
       ELSE Complete("stop", NoPath, FALSE)
    /\ UNCHANGED <<disk, channel, loads, ui_appends, tailVars, concVars, displayVars>>

\* self.wait(1000) returns because the thread has finished.
WaitFinished ==
    /\ ui_pc.at = "wait"
    /\ watches[watcher_thread].thread = "finished"
    /\ Complete(ui_pc.then, ui_pc.file_path, TRUE)
    /\ UNCHANGED <<disk, channel, loads, ui_appends, tailVars, concVars, displayVars>>

\* self.wait(1000) returns because the second is over.
WaitTimedOut ==
    /\ ui_pc.at = "wait"
    /\ watches[watcher_thread].thread # "finished"
    /\ Complete(ui_pc.then, ui_pc.file_path, TRUE)
    /\ UNCHANGED <<disk, channel, loads, ui_appends, tailVars, concVars, displayVars>>

\* MainWindow._on_new_line for the oldest queued emission.
OnNewLine ==
    /\ ui_pc.at = "idle"
    /\ channel # <<>>
    /\ LET m == Head(channel)
           data == IF parser = None THEN None ELSE ParseRow(parser, m.line)
           display == [current_data |-> current_data,
                       maximum_values |-> maximum_values]
           shown == IF Truthy(data)
                    THEN UpdateData(display, data, {"data"}).display
                    ELSE display
       IN  /\ channel' = Tail(channel)
           /\ current_data' = shown.current_data
           /\ maximum_values' = shown.maximum_values
           /\ ui_last' = [op |-> "line", file_path |-> current_file,
                          watch |-> m.watch, decoded |-> Truthy(data),
                          after_drop |-> /\ ui_last.op = "line"
                                         /\ ui_last.file_path # NoPath
                                         /\ ~ui_last.decoded,
                          content |-> m.line]
    /\ UNCHANGED <<disk, current_file, parser, watcher_thread, stop_enabled,
                   watches, ui_pc, last_stop, loads, ui_appends, tailVars,
                   concVars, displayVars>>

\* FileWatcherThread.run up to its loop: the watched file exists (files are
\* never removed), the handler is constructed at the file's end and the
\* observer is started.
ThreadRun(t) ==
    /\ watches[t].thread = "starting"
    /\ LET h == ReadInitialPosition(disk[watches[t].file_path])
       IN  watches' = [watches EXCEPT
                          ![t].thread = "looping",
                          ![t].observer = "running",
                          ![t].last_position = h.last_position,
                          ![t].last_known_size = h.last_known_size]
    /\ UNCHANGED <<disk, current_file, parser, watcher_thread, stop_enabled,
                   current_data, maximum_values, channel, ui_pc, ui_last,
                   last_stop, loads, ui_appends, tailVars, concVars, displayVars>>

\* The loop's test of _running: into the body, or out of run().
ThreadLoopTest(t) ==
    /\ watches[t].thread = "looping"
    /\ watches' = [watches EXCEPT
                      ![t].thread = IF watches[t].running
                                    THEN "polling" ELSE "finished"]
    /\ UNCHANGED <<disk, current_file, parser, watcher_thread, stop_enabled,
                   current_data, maximum_values, channel, ui_pc, ui_last,
                   last_stop, loads, ui_appends, tailVars, concVars, displayVars>>

\* One call of the handler's _read_new_lines on thread t's watcher: the
\* lines are queued for the window's thread in the order emitted.
HandlerPoll(t, thread_after) ==
    LET r == ReadNewLines(disk[watches[t].file_path], watches[t].last_position,
                          watches[t].last_known_size)
    IN  /\ watches' = [watches EXCEPT
                          ![t].thread = thread_after,
                          ![t].last_position = r.last_position,
                          ![t].last_known_size = r.last_known_size,
                          ![t].late = @ \/ (watches[t].stopped /\ r.emit # <<>>),
                          ![t].sent = @ \o r.emit]
        /\ channel' = channel \o
               [i \in 1 .. Len(r.emit) |-> [watch |-> t, line |-> r.emit[i]]]

\* The loop's body: a poll, then msleep(100).
ThreadPoll(t) ==
    /\ watches[t].thread = "polling"
    /\ HandlerPoll(t, "looping")
    /\ UNCHANGED <<disk, current_file, parser, watcher_thread, stop_enabled,
                   current_data, maximum_values, ui_pc, ui_last, last_stop,
                   loads, ui_appends, tailVars, concVars, displayVars>>

\* The observer dispatches on_modified for the watched file after it has
\* changed.
ObserverDispatch(t) ==
    /\ watches[t].observer = "running"
    /\ Len(disk[watches[t].file_path]) # watches[t].last_known_size
    /\ HandlerPoll(t, watches[t].thread)
    /\ UNCHANGED <<disk, current_file, parser, watcher_thread, stop_enabled,
                   current_data, maximum_values, ui_pc, ui_last, last_stop,
                   loads, ui_appends, tailVars, concVars, displayVars>>

\* The producer appends to one of the files.
LogAppend(file_path) ==
    /\ ui_appends < MaxUiAppends
    /\ ui_appends' = ui_appends + 1
    /\ \E chunk \in Appended[file_path] :
           disk' = [disk EXCEPT ![file_path] = @ \o chunk]
    /\ UNCHANGED <<current_file, parser, watcher_thread, stop_enabled,
                   current_data, maximum_values, watches, channel, ui_pc,
                   ui_last, last_stop, loads, tailVars, concVars, displayVars>>

UiNext ==
    \/ \E file_path \in Paths : LoadFile(file_path)
    \/ StopWatching
    \/ WaitFinished
    \/ WaitTimedOut
    \/ OnNewLine
    \/ \E t \in 1 .. Len(watches) : ThreadRun(t)
    \/ \E t \in 1 .. Len(watches) : ThreadLoopTest(t)
    \/ \E t \in 1 .. Len(watches) : ThreadPoll(t)
    \/ \E t \in 1 .. Len(watches) : ObserverDispatch(t)
    \/ \E file_path \in DOMAIN disk : LogAppend(file_path)

SpecUI == UiInit /\ [][UiNext]_vars

\* --------------------------------------------------- the display on its own
\*
\* DataDisplayWidget fed by its two callers' calls: update_data(data) with a
\* record (as _on_new_line does) and set_column_info (as _load_file does).

\* The records handed over: column a takes every kind of value, column b a
\* text or a number.
ValuesA ==
    { <<"5">>, <<"-", "1", "2">>, <<"3">>, <<"1", "2">>, <<"x">>,
      <<"n", "a", "n">> }
ValuesB == { <<"x">>, <<"3">> }
DisplayRows ==
    { Dict((<<"a">> :> va) @@ (<<"b">> :> vb)) : va \in ValuesA, vb \in ValuesB }

\* How many records are handed over.
MaxUpdates == 3

DisplayInit ==
    /\ WindowInit(NoFiles)
    /\ NoWatcher

\* DataDisplayWidget.update_data(data)
TrackedUpdate ==
    \E data \in DisplayRows :
        /\ updates < MaxUpdates
        /\ updates' = updates + 1
        /\ LET r == UpdateData([current_data |-> current_data,
                                maximum_values |-> maximum_values],
                               data, {"data"})
           IN  /\ current_data' = r.display.current_data
               /\ maximum_values' = r.display.maximum_values
        /\ observed' =
               [column_name \in DOMAIN observed \cup DOMAIN data.items |->
                   (IF column_name \in DOMAIN observed
                    THEN observed[column_name] ELSE <<>>)
                   \o (IF column_name \in DOMAIN data.items
                       THEN <<data.items[column_name]>> ELSE <<>>)]
        /\ UNCHANGED <<disk, current_file, parser, watcher_thread,
                       stop_enabled, watches, channel, ui_pc, ui_last,
                       last_stop, loads, ui_appends, header_fields, tailVars,
                       concVars>>

\* DataDisplayWidget.set_column_info
ResetColumns ==
    /\ observed # NoObserved
    /\ LET d == SetColumnInfo([current_data |-> current_data,
                               maximum_values |-> maximum_values])
       IN  /\ current_data' = d.current_data
           /\ maximum_values' = d.maximum_values
    /\ observed' = NoObserved
    /\ UNCHANGED <<disk, current_file, parser, watcher_thread, stop_enabled,
                   watches, channel, ui_pc, ui_last, last_stop, loads,
                   ui_appends, updates, header_fields, tailVars, concVars>>

DisplayNext ==
    \/ TrackedUpdate
    \/ ResetColumns

SpecDisplay == DisplayInit /\ [][DisplayNext]_vars

\* ---------------------------------------------------- the parser on its own
\*
\* The producer creates the log with a header line; CSVParser is constructed
\* on it.

\* The header fields: every text of up to MaxFieldLen characters out of a
\* letter, a blank and the two parentheses (no quote, no comma); one field,
\* or one followed by a second.
HeaderAlphabet == {"a", " ", "(", ")"}
MaxFieldLen == 5
HeaderTexts ==
    UNION { [1 .. n -> HeaderAlphabet] : n \in 1 .. MaxFieldLen }
SecondFields == { <<"b">>, <<"b", " ", "(", "c", ")">>, <<"a", " ", "(", "c", ")">> }
HeaderRows ==
    { <<h>> : h \in HeaderTexts }
    \cup { <<h, g>> : h \in HeaderTexts, g \in SecondFields }

\* ",".join(row) + "\n"
RECURSIVE JoinComma(_)
JoinComma(row) ==
    IF Len(row) = 1 THEN row[1]
    ELSE row[1] \o <<COMMA>> \o JoinComma(Tail(row))

HeaderInit ==
    /\ WindowInit(NoFiles)
    /\ NoWatcher

\* The producer creates the file.
CreateLog ==
    \E row \in HeaderRows :
        /\ header_fields = <<>>
        /\ header_fields' = row
        /\ disk' = [A |-> JoinComma(row) \o <<LF>>]
        /\ UNCHANGED <<current_file, parser, watcher_thread, stop_enabled,
                       current_data, maximum_values, watches, channel, ui_pc,
                       ui_last, last_stop, loads, ui_appends, observed,
                       updates, tailVars, concVars>>

\* CSVParser(file_path)
OpenParser ==
    /\ header_fields # <<>>
    /\ parser = None
    /\ parser' = ParseHeader(disk["A"])
    /\ UNCHANGED <<disk, current_file, watcher_thread, stop_enabled,
                   current_data, maximum_values, watches, channel, ui_pc,
                   ui_last, last_stop, loads, ui_appends, displayVars,
                   tailVars, concVars>>

\* The data lines handed to parse_row: one field, two fields with and
\* without blanks around them, three fields.
DataRows ==
    { <<"1">>,
      <<"1", COMMA, "2">>,
      <<" ", "1", " ", COMMA, " ", "2">>,
      <<"1", COMMA, "2", COMMA, "3">> }

\* parser.parse_row(row_data)
DecodeRow ==
    \E row_data \in DataRows :
        /\ parser # None
        /\ parser # ValueError
        /\ ui_last.op # "row"
        /\ ui_last' = [NoOp EXCEPT !.op = "row", !.content = row_data]
        /\ current_data' = ParseRow(parser, row_data)
        /\ UNCHANGED <<disk, current_file, parser, watcher_thread,
                       stop_enabled, maximum_values, watches, channel, ui_pc,
                       last_stop, loads, ui_appends, displayVars, tailVars,
                       concVars>>

HeaderNext ==
    \/ CreateLog
    \/ OpenParser
    \/ DecodeRow

SpecHeader == HeaderInit /\ [][HeaderNext]_vars

\* ------------------------------------------------------------- properties

\* bytes.split(b'\n'): the pieces between the newlines of b.
RECURSIVE SplitLF(_)
SplitLF(b) ==
    LET i == Find(b, 0)
    IN  IF i = -1 THEN <<b>>
        ELSE <<SubSeq(b, 1, i)>> \o SplitLF(SubSeq(b, i + 2, Len(b)))

\* The complete lines of b, those a newline ends, as text without surrounding
\* whitespace, the blank ones left out.
NonBlankLines(b) ==
    LET pieces == SplitLF(b)
        texts == [i \in 1 .. Len(pieces) - 1 |-> Strip(DecodeIgnore(pieces[i]))]
    IN  SelectSeq(texts, LAMBDA t : t # <<>>)

\* The offset just past the final newline of b, 0 when b has none.
PastFinalNewline(b) == RFind(b) + 1

\* The file's size when _read_new_lines last looked at it.
PolledSize == IF last_poll.polled THEN Len(last_poll.content) ELSE size0

\* The bytes the latest call of _read_new_lines had between the offset and
\* the end of the file.
PollRegion == SubSeq(last_poll.content, last_poll.pos_before + 1, Len(last_poll.content))

\* C1: no double-read.  A watcher constructed on a file that ends with a
\* newline, then polled sequentially while the producer appends complete
\* lines only, has emitted exactly the non-blank lines appended since its
\* construction and seen by a poll, each once and in file order; no line of
\* the file as it was at construction is among them.
NoDoubleRead ==
    clean => emitted = NonBlankLines(SubSeq(file, size0 + 1, PolledSize))

\* C2: partial-line deferral.  For a call of _read_new_lines whose offset lies
\* within the file: (a) no newline between the offset and the end of the
\* file: nothing is emitted and the offset stays; (b) the offset never moves
\* beyond the final newline, and moves exactly past it when the call reads;
\* (c) a call that follows one which left a partial line starts at that
\* line's first byte and emits the complete lines from there on in file
\* order: the completed line first, whole and once, then the lines after it.
PartialLineDeferral ==
    (last_poll.polled /\ last_poll.pos_before <= Len(last_poll.content)) =>
        /\ Find(PollRegion, 0) = -1 =>
               /\ last_poll.emit = <<>>
               /\ last_poll.pos_after = last_poll.pos_before
        /\ last_poll.pos_after <= last_poll.pos_before + PastFinalNewline(PollRegion)
        /\ Len(last_poll.content) # last_poll.known_before =>
               last_poll.pos_after = last_poll.pos_before + PastFinalNewline(PollRegion)
        /\ last_poll.deferred_before >= 0 =>
               /\ last_poll.pos_before = last_poll.deferred_before
               /\ last_poll.emit = NonBlankLines(PollRegion)

\* A poll completed the partial line an earlier poll had left, and emitted it
\* and the line after it.
PartialLineCompleted ==
    /\ last_poll.polled
    /\ last_poll.deferred_before >= 0
    /\ Len(last_poll.emit) = 2
    /\ last_poll.pos_after = Len(last_poll.content)

\* C3: truncation reset.  A call of _read_new_lines that finds the file
\* smaller than the offset emits the complete lines of the file's current
\* content from byte 0 on, and leaves the offset just past their last newline.
TruncationRestartsAtZero ==
    (last_poll.polled /\ Len(last_poll.content) < last_poll.pos_before) =>
        /\ last_poll.emit = NonBlankLines(last_poll.content)
        /\ last_poll.pos_after = PastFinalNewline(last_poll.content)

\* A poll found the file shorter than its offset and emitted lines of the
\* new content.
TruncatedAndReread ==
    /\ last_poll.polled
    /\ Len(last_poll.content) < last_poll.pos_before
    /\ last_poll.emit # <<>>


\* Whether s is t with some of its elements left out.
RECURSIVE IsSubsequence(_, _)
IsSubsequence(s, t) ==
    IF s = <<>> THEN TRUE
    ELSE IF t = <<>> THEN FALSE
    ELSE IF Head(s) = Head(t) THEN IsSubsequence(Tail(s), Tail(t))
    ELSE IsSubsequence(s, Tail(t))

\* C4: at-most-once, in-order delivery.  While the file only grows and no
\* file-created notification has reset the watcher, the lines emitted so far
\* by the poll loop and the observer are lines of the file, each at most once
\* and in file order: they are the file's lines with some left out.
AtMostOnceInOrder ==
    created = 0 => IsSubsequence(emitted, NonBlankLines(file))

\* C5: coalescing and single ownership.  No two calls of _read_new_lines on
\* the watcher are in progress at once, and at most one thread has written
\* last_position or last_known_size.
SinglePollSingleWriter ==
    /\ ~(pc["worker"] # "idle" /\ pc["observer"] # "idle")
    /\ Cardinality(writers) <= 1


\* C6: switching files.  A line that _on_new_line decodes was read from the
\* file whose parser decodes it: never from the file watched before.
StaleLineNeverDecoded ==
    (ui_last.op = "line" /\ ui_last.decoded) =>
        watches[ui_last.watch].file_path = ui_last.file_path

\* C7: idempotent stop.  Every _stop_watching ends with no thread, no parser
\* and no current file; one invoked when no watch was ever started, or right
\* after another, waits for nothing; the window's thread only ever waits on
\* a thread it holds.
IdempotentStop ==
    /\ last_stop.after = NoStop.after
    /\ (last_stop.streak >= 2 \/ (last_stop.streak >= 1 /\ watches = <<>>))
           => ~last_stop.waited
    /\ ui_pc.at = "wait" => watcher_thread # NoThread

\* C7 witness: after a watch, _stop_watching has run twice in a row.
StoppedTwiceAfterWatch ==
    /\ last_stop.streak >= 2
    /\ watches # <<>>
    /\ ui_pc.at = "idle"

\* C8: stop effect.  Once stop() has returned for a watch, its observer is
\* not running and it has emitted nothing since.
StopDeregisters ==
    \A t \in 1 .. Len(watches) :
        watches[t].stopped =>
            watches[t].observer # "running" /\ ~watches[t].late

\* The last complete, well-formed data row of a file under the file's own
\* header, or None: the lines that end in "\n" after the header line, blank
\* ones skipped.
LastCompleteRow(f) ==
    LET lines == Split(DecodeIgnore(f), LF)
        self == ParseHeader(f)
        rows == { i \in 2 .. Len(lines) - 1 :
                     /\ Strip(lines[i]) # <<>>
                     /\ Truthy(ParseRow(self, Strip(lines[i]))) }
    IN  IF rows = {} THEN None
        ELSE ParseRow(self, Strip(lines[CHOOSE i \in rows :
                                            \A j \in rows : j <= i]))

\* C9: startup backfill.  Right after _load_file succeeded on a file with a
\* complete well-formed data row, the display shows the last such row.
BackfillShowsLastRow ==
    (ui_last.op = "ok" /\ LastCompleteRow(ui_last.content) # None) =>
        current_data = LastCompleteRow(ui_last.content)

\* C10: backfill is not tracked.  Right after _load_file succeeded, no
\* column has an aggregate.
BackfillNotTracked ==
    ui_last.op = "ok" => DOMAIN maximum_values = {}

\* C10 witness: _load_file succeeded on a file whose backfill row has a
\* numeric value, after an earlier watch.
LoadedWithNumericBackfill ==
    /\ ui_last.op = "ok"
    /\ Len(watches) >= 2
    /\ LET data == BackfillRow(parser, ui_last.content)
       IN  /\ data # None
           /\ \E c \in DOMAIN data.items : IsNumber(data.items[c])

\* C11: catch-up versus live read.  Once a watch's thread has constructed its
\* watcher, the lines it has emitted are exactly the non-blank lines between
\* the end of the last line that was complete when the backfill read the file
\* and the watcher's offset: none skipped, none twice.
CatchUpThenLiveExactlyOnce ==
    \A t \in 1 .. Len(watches) :
        watches[t].thread # "starting" =>
            LET f == disk[watches[t].file_path]
                from == PastFinalNewline(SubSeq(f, 1, watches[t].backfilled))
            IN  watches[t].sent =
                    NonBlankLines(SubSeq(f, from + 1, watches[t].last_position))

\* C12: arity mismatch is dropped, not fatal.  Whenever _on_new_line handles a
\* line while a parser is set: if the line's field count differs from
\* column_count, parse_row returns None and the record shown and every
\* aggregate stay as they were; if it is equal, the record shown becomes the
\* line's fields under the column names.
ArityMismatchDropped ==
    [][ (/\ ui_pc.at = "idle"
         /\ channel # <<>>
         /\ channel' = Tail(channel)
         /\ parser # None)
        => LET values == CsvFields(Head(channel).line)
           IN  IF Len(values) # parser.column_count
               THEN /\ ParseRow(parser, Head(channel).line) = None
                    /\ current_data' = current_data
                    /\ maximum_values' = maximum_values
                    /\ parser' = parser
               ELSE /\ current_data'.type = "dict"
                    /\ \A i \in 1 .. parser.column_count :
                           current_data'.items[parser.column_names[i]] =
                               Strip(values[i]) ]_vars

\* C12 witness: a line of the wrong arity was dropped and the line after it
\* has been decoded and is shown.
ShownAfterDrop ==
    /\ ui_last.op = "line"
    /\ ui_last.after_drop
    /\ ui_last.decoded
    /\ current_data = ParseRow(parser, ui_last.content)
    /\ watches[ui_last.watch].file_path = ui_last.file_path

\* The floats observed for a column since the reset, by position.
NumericAt(column_name) ==
    { i \in 1 .. Len(observed[column_name]) :
         IsNumber(observed[column_name][i]) }

\* C13: max-magnitude aggregate.  For every column handed over since the
\* reset: with no numeric observation the column reports "N/A"; otherwise it
\* reports one of the numeric observations, sign retained, whose magnitude is
\* at least that of every other numeric observation that has a magnitude (the
\* NaN has none).
MaxMagnitudeAggregate ==
    \A column_name \in DOMAIN observed :
        LET at == NumericAt(column_name)
            seen(i) == Float(observed[column_name][i])
        IN  IF at = {}
            THEN CalculateMaximum(maximum_values, column_name) = NA
            ELSE \E i \in at :
                    /\ CalculateMaximum(maximum_values, column_name) =
                           Format2f(seen(i))
                    /\ \A j \in at \ {i} :
                           seen(j).nan \/ AtLeast(Abs(seen(i)), Abs(seen(j)))

\* C14: open-time failure retains no partial state.  Right after a _load_file
\* that found no file or could not parse the header, the window has no
\* parser, no current file and no thread, the Stop button is disabled, and no
\* thread that was ever started is still asked to run.
OpenFailureKeepsNothing ==
    ui_last.op \in {"not_found", "error"} =>
        /\ parser = None
        /\ current_file = NoPath
        /\ watcher_thread = NoThread
        /\ ~stop_enabled
        /\ \A t \in 1 .. Len(watches) : ~watches[t].running

\* C14 witness: a header that does not parse was opened while another file
\* was being watched.
FailedOpenAfterWatch ==
    /\ ui_last.op = "error"
    /\ ui_last.file_path = "A"
    /\ watches # <<>>
    /\ ParseHeader(disk["A"]) = ValueError

\* Where the trailing parenthesized group of a trimmed field opens: the last
\* "(" when the field ends in ")", something other than parentheses stands
\* between the two and a name stands before; 0 when the field has no such
\* group.
TrailingGroup(h) ==
    LET n == Len(h)
        opens == { p \in 2 .. n - 2 :
                      /\ h[p] = "("
                      /\ h[n] = ")"
                      /\ \A k \in p + 1 .. n - 1 : h[k] \notin {"(", ")"} }
    IN  IF opens = {} THEN 0 ELSE CHOOSE p \in opens : TRUE

\* C15: header round-trip.  The parser has one column per header field; a
\* field NAME (UNIT) with a trailing group gives the trimmed NAME and the
\* trimmed UNIT, any other field gives the whole trimmed field and no unit.
HeaderRoundTrip ==
    parser.type = "CSVParser" =>
        /\ parser.column_count = Len(header_fields)
        /\ \A i \in 1 .. Len(header_fields) :
               LET h == Strip(header_fields[i])
                   p == TrailingGroup(h)
               IN  IF p > 0
                   THEN /\ parser.column_names[i] = Strip(SubSeq(h, 1, p - 1))
                        /\ parser.column_units[i] =
                               Strip(SubSeq(h, p + 1, Len(h) - 1))
                   ELSE /\ parser.column_names[i] = h
                        /\ parser.column_units[i] = <<>>

\* C16: initial offset.  A watcher that has just been constructed and has not
\* polled yet has the file's size cached, and its offset is 0 for an empty
\* file, just past the last newline byte when the final min(1024, size) bytes
\* hold one, and the start of that window otherwise.
InitialOffset ==
    (~last_poll.polled /\ appends = 0 /\ rewrites = 0 /\ created = 0) =>
        LET file_size == Len(file)
            window == Min(ChunkWindow, file_size)
            tail == SubSeq(file, file_size - window + 1, file_size)
        IN  /\ last_known_size = file_size
            /\ last_position =
                   IF file_size = 0 THEN 0
                   ELSE IF \E i \in 1 .. window : tail[i] = LF
                   THEN PastFinalNewline(file)
                   ELSE file_size - window

\* The bytes are single-byte characters and the line ends are LF.
Plain(b) == \A i \in 1 .. Len(b) : b[i] \notin {CR, BadByte}

\* C17: attach during a mid-write line.  The watcher was constructed on a
\* plain file whose last line had no newline yet; the producer has since
\* completed that line and a poll has seen the file as it is.  Then the offset
\* is past the completed line and the lines emitted are exactly the lines from
\* the start of that line to the offset: the line in full, once, and no
\* fragment of it.
MidWriteLineOnce ==
    (/\ rewrites = 0 /\ created = 0
     /\ size0 > 0
     /\ file[size0] # LF
     /\ Plain(SubSeq(file, 1, size0))
     /\ \E i \in size0 + 1 .. Len(file) : file[i] = LF
     /\ last_poll.polled
     /\ last_known_size = Len(file))
    => LET from == PastFinalNewline(SubSeq(file, 1, size0))
           done == CHOOSE i \in size0 + 1 .. Len(file) :
                       /\ file[i] = LF
                       /\ \A j \in size0 + 1 .. i - 1 : file[j] # LF
       IN  /\ last_position >= done
           /\ emitted = NonBlankLines(SubSeq(file, from + 1, last_position))

\* C18: line-boundary invariant.  Right after the watcher is constructed, and
\* whenever the file is as the latest poll saw it, the offset is 0 or lies
\* within the file just past a newline byte.
LineBoundary ==
    (\/ ~last_poll.polled /\ appends = 0 /\ rewrites = 0
     \/ last_poll.polled /\ last_poll.content = file)
    => \/ last_position = 0
       \/ /\ last_position <= Len(file)
          /\ file[last_position] = LF

\* C19: offset monotonicity.  Every step leaves last_position as it was,
\* increases it, or sets it to exactly 0.
OffsetMonotone ==
    [][\/ last_position' >= last_position
       \/ last_position' = 0]_vars

\* C20: a transient I/O failure is retried.  A poll in which stat, open or read
\* raised leaves last_position as it was; and once a poll has completed
\* without raising on the file as it is now, a plain file that was never
\* rewritten, every complete line past the offset the watcher started from has
\* been emitted.
FailedPollRetried ==
    /\ last_poll.raised # "" => last_position = last_poll.pos_before
    /\ (/\ last_poll.polled
        /\ last_poll.raised = ""
        /\ last_poll.content = file
        /\ size0 <= ChunkWindow
        /\ Plain(file))
       => emitted = NonBlankLines(SubSeq(file,
                                         PastFinalNewline(SubSeq(file, 1, size0)) + 1,
                                         Len(file)))

\* The most bytes the producer appends while one watcher runs.
MaxAppended == MaxAppends * 3

\* The lines appended in full among the first k bytes written after the
\* watcher was constructed: when the file then ended inside a line, the
\* bytes that complete that line are left out.
AppendedLines(k) ==
    LET midline == size0 > 0 /\ file[size0] # LF
        ends == { i \in size0 + 1 .. size0 + k : file[i] = LF }
        first == IF ~midline THEN size0
                 ELSE IF ends = {} THEN size0 + k
                 ELSE CHOOSE i \in ends : \A j \in ends : i <= j
    IN  NonBlankLines(SubSeq(file, first + 1, size0 + k))

\* sub occurs in seq as a run of consecutive elements.
Occurs(sub, seq) ==
    \E i \in 0 .. Len(seq) - Len(sub) : SubSeq(seq, i + 1, i + Len(sub)) = sub

\* C21: fallback-timer liveness.  With every notification lost, whatever the
\* producer has appended, the poll loop eventually has emitted every complete
\* non-blank line among the appended bytes, in order.
PollLoopEmitsAppended ==
    \A k \in 0 .. MaxAppended :
        (Len(file) >= size0 + k)
            ~> (Len(file) >= size0 + k /\ Occurs(AppendedLines(k), emitted))

\* A poll has emitted a line that was appended after the watcher started.
AppendedLineEmitted ==
    /\ appends > 0
    /\ last_poll.polled
    /\ last_poll.emit # <<>>
    /\ AppendedLines(Len(file) - size0) # <<>>
    /\ Occurs(AppendedLines(Len(file) - size0), emitted)

\* C22: file-recreated notification.  on_created for the tracked path leaves the
\* offset just past the file's final newline and the cached size at the file's
\* size, having emitted every complete non-blank line of the file from its
\* first byte, whatever the offset and the cached size were; on_created for a
\* directory or for another path changes neither field and emits nothing.
CreatedRereadsFromStart ==
    [][\A event \in Events :
           OnCreatedFor(event) =>
               IF ForTrackedFile(event)
               THEN /\ emitted' = emitted \o NonBlankLines(file)
                    /\ last_position' = PastFinalNewline(file)
                    /\ last_known_size' = Len(file)
               ELSE UNCHANGED <<emitted, last_position, last_known_size>>]_vars

\* on_created for the tracked path has re-emitted the lines of a file whose
\* watcher had started past them.
RecreatedAndReread ==
    /\ created > 0
    /\ rewrites = 0
    /\ size0 > 0
    /\ last_poll.polled
    /\ last_poll.pos_before = 0
    /\ last_poll.known_before = 0
    /\ last_poll.content = file
    /\ last_poll.emit # <<>>
    /\ last_position = PastFinalNewline(file)

\* C23: size short-circuit.  A call of _read_new_lines from the poll loop or
\* from on_modified that finds the file's size equal to last_known_size does
\* not reach open, emits no line and leaves last_position and last_known_size
\* as they were.
SizeShortCircuit ==
    [][((Poll \/ OnModified) /\ Len(file) = last_known_size) =>
           /\ ~Reaches(file, last_position, last_known_size, "open")
           /\ UNCHANGED <<emitted, last_position, last_known_size>>]_vars

\* A call returned at the size comparison although bytes lay past the offset.
ShortCircuitedWithBytesPending ==
    /\ last_poll.polled
    /\ last_poll.known_before = Len(last_poll.content)
    /\ last_poll.pos_before < Len(last_poll.content)
    /\ last_poll.emit = <<>>
    /\ last_poll.pos_after = last_poll.pos_before
    /\ last_known_size = last_poll.known_before

\* C24: aggregates reset on open.  While a file is open, every aggregate shown
\* is the numeric value some complete line of that file has in the
\* aggregate's column: no value of a file opened before contributes.
AggregatesOfCurrentFile ==
    (current_file # NoPath /\ parser # None) =>
        LET rows == NonBlankLines(disk[current_file])
        IN  \A c \in DOMAIN maximum_values :
                \E i \in 1 .. Len(rows) :
                    LET data == ParseRow(parser, rows[i])
                    IN  /\ data # None
                        /\ c \in DOMAIN data.items
                        /\ IsNumber(data.items[c])
                        /\ Float(data.items[c]) = maximum_values[c]

\* The bytes a call of _read_new_lines that passed the size comparison had
\* from the offset it read at to the end of the file.
ReadRegion ==
    LET size == Len(last_poll.content)
        start == IF size < last_poll.pos_before THEN 0 ELSE last_poll.pos_before
    IN  [start |-> start, bytes |-> SubSeq(last_poll.content, start + 1, size)]

\* C25: skipped lines are consumed.  A call that read the file emitted the
\* non-blank complete lines of what lay past the offset and moved the offset
\* past the final newline of it, blank and undecodable lines included; and no
\* emitted line is empty or contains a newline.
SkippedLinesConsumed ==
    /\ \A i \in 1 .. Len(emitted) :
           /\ emitted[i] # <<>>
           /\ \A j \in 1 .. Len(emitted[i]) : emitted[i][j] # LF
    /\ (last_poll.polled /\ Len(last_poll.content) # last_poll.known_before)
           => /\ last_poll.emit = NonBlankLines(ReadRegion.bytes)
              /\ last_poll.pos_after =
                     ReadRegion.start + PastFinalNewline(ReadRegion.bytes)

\* A call read a line of undecodable bytes followed by a line it emitted, and
\* the offset is at the end of the file.
UndecodableLineSkippedThenEmitted ==
    /\ last_poll.polled
    /\ Len(last_poll.content) # last_poll.known_before
    /\ Len(SplitLF(ReadRegion.bytes)) >= 3
    /\ SplitLF(ReadRegion.bytes)[1] = <<BadByte>>
    /\ last_poll.emit # <<>>
    /\ last_poll.pos_after = Len(last_poll.content)

\* C26: record shape.  Whenever parse_row returns a dict, its keys are exactly
\* the column names and, for every column i, the value under column_names[i]
\* is the i-th field of the line without surrounding whitespace.
RecordShape ==
    (ui_last.op = "row" /\ current_data.type = "dict") =>
        LET values == CsvFields(ui_last.content)
        IN  /\ DOMAIN current_data.items =
                   { parser.column_names[i] : i \in 1 .. parser.column_count }
            /\ \A i \in 1 .. parser.column_count :
                   current_data.items[parser.column_names[i]] = Strip(values[i])

\* C27: the header line is never emitted.  A call of _read_new_lines that read
\* the file from its first byte emitted the non-blank complete lines after
\* line 1 and nothing of line 1.
HeaderNeverEmitted ==
    (/\ last_poll.polled
     /\ Len(last_poll.content) # last_poll.known_before
     /\ ReadRegion.start = 0)
    => LET first == Find(last_poll.content, 0)
           after == IF first = -1 THEN Len(last_poll.content) ELSE first + 1
       IN  last_poll.emit =
               NonBlankLines(SubSeq(last_poll.content, after + 1,
                                    Len(last_poll.content)))

\* C28: the offset never exceeds the cached size.  Whenever no call of
\* _read_new_lines is in progress, last_position <= last_known_size.
OffsetWithinCachedSize ==
    (\A t \in Threads : pc[t] = "idle") => last_position <= last_known_size

\* C29: main-window state consistency.  Between handlers of the window's
\* thread, a thread is held exactly when a parser is set, exactly when a
\* current file is recorded, exactly when the Stop button is enabled; the
\* thread held is one the window started, and every other thread it started
\* has been told to stop.
WindowStateConsistent ==
    ui_pc.at = "idle" =>
        /\ (watcher_thread # NoThread) <=> (parser # None)
        /\ (parser # None) <=> (current_file # NoPath)
        /\ (current_file # NoPath) <=> stop_enabled
        /\ watcher_thread # NoThread => watcher_thread \in 1 .. Len(watches)
        /\ \A t \in 1 .. Len(watches) :
               t # watcher_thread => ~watches[t].running

\* A second file is being watched after the first watch was replaced.
SecondWatchHeld ==
    /\ ui_pc.at = "idle"
    /\ Len(watches) >= 2
    /\ watcher_thread = Len(watches)
    /\ stop_enabled
    /\ parser # None
    /\ current_file # NoPath

\* A call of _read_new_lines on the watcher as it is: by the poll loop, or by
\* on_modified for the tracked path.
ReadsAsIs ==
    \/ Poll
    \/ \E event \in Events : ForTrackedFile(event) /\ OnModifiedFor(event)

\* C30: rotation is detected only by a size below the offset.  A call that
\* finds the size equal to the cached one changes nothing, whatever the
\* content; one that finds another size, not below the offset, emits the
\* non-blank complete lines from the old offset on and advances the offset
\* from there, without a reset.
RotationOnlyBySizeDecrease ==
    [][ReadsAsIs =>
           LET past == SubSeq(file, last_position + 1, Len(file))
           IN  /\ Len(file) = last_known_size
                   => UNCHANGED <<emitted, last_position, last_known_size>>
               /\ (Len(file) # last_known_size /\ Len(file) >= last_position)
                   => /\ emitted' = emitted \o NonBlankLines(past)
                      /\ last_position' = last_position + PastFinalNewline(past)
                      /\ last_known_size' = Len(file)]_vars

\* The file's content was replaced by a longer one, no line appended; the poll
\* read from the old offset and emitted what lay past it.
ReplacedAndReadFromOldOffset ==
    /\ rewrites > 0
    /\ created = 0
    /\ appends = 0
    /\ last_poll.polled
    /\ last_poll.content = file
    /\ last_poll.pos_before > 0
    /\ Len(file) > last_poll.known_before
    /\ last_poll.emit # <<>>
    /\ last_poll.emit # NonBlankLines(file)
    /\ last_position = Len(file)

=============================================================================
